---- MODULE Spec2Model ----
(***************************************************************************)
(* Syntax models of src/syntax/mod.rs: the SyntaxModel tree, its Nodes,    *)
(* the type-erased Model values owned by extension nodes (Box<dyn Model>), *)
(* the ModelBounds adapter (as_any / bound_eq / bound_clone), downcast,    *)
(* and the layout operation.                                               *)
(*                                                                         *)
(* Every Box<dyn Model> is a cell of `heap`; a Node::Model holds the cell's*)
(* address, so that ownership and sharing of storage are visible.          *)
(***************************************************************************)
EXTENDS Integers, Sequences, FiniteSets, TLC

\* ------------------------------------------------------------------ bounds
MaxLen == 2
MaxAddr == 3
MaxCloneAddr == 6
MaxPayload == 1
NumSpans == 2
NumTasks == 2
NumCtx == 2

VARIABLES
    models,   \* slot -> SyntaxModel value held by a local of the caller
    heap,     \* address -> erased Model value stored in a Box, or Free
    tasks,    \* layout futures of the driver
    cloned,   \* the most recent clone: original and copy
    obs       \* the operation performed by the last step and what it returned

vars == <<models, heap, tasks, cloned, obs>>

\* ------------------------------------------------------------------- data
Slots == {"a", "b"}
Addrs == 1..MaxAddr
CloneAddrs == 1..MaxCloneAddr
Tasks == 1..NumTasks
Contexts == 1..NumCtx
Payloads == 0..MaxPayload
Texts == {"hi", "there"}

None == [tag |-> "None"]
Some(x) == [tag |-> "Some", v |-> x]

MkSpan(i) == [start |-> i, end |-> i + 1]
Spans == {MkSpan(i) : i \in 1..NumSpans}
Spanned(n, sp) == [v |-> n, span |-> sp]

\* enum Node
Space == [kind |-> "Space"]
Parbreak == [kind |-> "Parbreak"]
Linebreak == [kind |-> "Linebreak"]
Text(s) == [kind |-> "Text", text |-> s]
Raw(l) == [kind |-> "Raw", lines |-> l]
ToggleItalic == [kind |-> "ToggleItalic"]
ToggleBolder == [kind |-> "ToggleBolder"]
ModelNode(a) == [kind |-> "Model", box |-> a]

UnitNodes == {Space, Parbreak, Linebreak, ToggleItalic, ToggleBolder}
RawLines == {<<>>, <<"hi">>, <<"hi", "there">>}
PlainNodes == UnitNodes \cup {Text(s) : s \in Texts} \cup {Raw(l) : l \in RawLines}

\* Concrete types implementing Model: SyntaxModel, and two extension types
\* with a payload, derived PartialEq and Clone.
ExtTypes == {"FuncA", "FuncB"}
ModelTypes == {"SyntaxModel"} \cup ExtTypes
Ext(T, p) == [type |-> T, val |-> p]
Boxed(m) == [type |-> "SyntaxModel", nodes |-> m.nodes]
Free == [type |-> "free"]

FreeAddrs(h) == {a \in DOMAIN h : h[a] = Free}
LiveAddrs(h) == DOMAIN h \ FreeAddrs(h)
\* Box::new: a cell that is not in use.
Alloc(h) == CHOOSE a \in FreeAddrs(h) : \A b \in FreeAddrs(h) : a <= b

\* SyntaxModel::new
SyntaxModel_new == [nodes |-> <<>>]

\* SyntaxModel::add
add_front(self, node) == [self EXCEPT !.nodes = <<node>> \o @]
add(self, node) == [self EXCEPT !.nodes = Append(@, node)]

\* ------------------------------------------------- storage owned by a value
RECURSIVE ReachNodes(_, _)
RECURSIVE ReachBox(_, _)
ReachNodes(nodes, h) ==
    UNION {ReachBox(nodes[i].v.box, h) : i \in {j \in DOMAIN nodes : nodes[j].v.kind = "Model"}}
ReachBox(a, h) ==
    {a} \cup (IF h[a].type = "SyntaxModel" THEN ReachNodes(h[a].nodes, h) ELSE {})

\* Dropping a value frees every Box it owns.
Drop(nodes, h) == [a \in DOMAIN h |-> IF a \in ReachNodes(nodes, h) THEN Free ELSE h[a]]

\* ------------------------------------------------------ erasure: downcast
\* ModelBounds::as_any: the same reference, viewed as dyn Any.
as_any(self) == self

\* Any::downcast_ref::<T>: the reference when the runtime type is T.
downcast_ref(any, T, h) == IF h[any].type = T THEN Some(any) ELSE None

\* <dyn Model>::downcast::<T>
downcast_unchecked(self, T, h) == Some(as_any(self))
downcast(self, T, h) == downcast_ref(as_any(self), T, h)

\* ------------------------------------------------------------- equality
RECURSIVE NodeEq(_, _, _)
RECURSIVE SpanVecEq(_, _, _)
RECURSIVE bound_eq(_, _, _)

\* PartialEq of an extension type: derived, on its payload.
ExtEq(x, y) == x.val = y.val

\* PartialEq of Spanned<T>: derived, on the value and the span.
SpannedEq(x, y, h) == NodeEq(x.v, y.v, h) /\ x.span = y.span

\* PartialEq of Vec<Spanned<Node>>
SpanVecEq(xs, ys, h) ==
    /\ Len(xs) = Len(ys)
    /\ \A i \in DOMAIN xs : SpannedEq(xs[i], ys[i], h)

\* #[derive(PartialEq)] struct SyntaxModel
SyntaxModelEq(x, y, h) == SpanVecEq(x.nodes, y.nodes, h)

\* Self::eq of the concrete type T, on two references to values of type T.
ConcreteEq(T, x, y, h) ==
    IF T = "SyntaxModel" THEN SyntaxModelEq(h[x], h[y], h) ELSE ExtEq(h[x], h[y])

\* ModelBounds::bound_eq
bound_eq_untyped(self, other, h) ==
    IF (h[self].type = "SyntaxModel") # (h[other].type = "SyntaxModel") THEN FALSE
    ELSE ConcreteEq(h[self].type, self, other, h)
bound_eq_sametype(self, other, h) ==
    downcast_ref(as_any(other), h[self].type, h).tag = "Some"
bound_eq(self, other, h) ==
    LET d == downcast_ref(as_any(other), h[self].type, h)
    IN  IF d.tag = "Some" THEN ConcreteEq(h[self].type, self, d.v, h) ELSE FALSE

\* impl PartialEq for dyn Model
ModelEq(self, other, h) == bound_eq(self, other, h)

\* impl PartialEq for Node
NodeEq_kind(a, b, h) == a.kind = b.kind
NodeEq(a, b, h) ==
    CASE a.kind = "Space" /\ b.kind = "Space" -> TRUE
      [] a.kind = "Parbreak" /\ b.kind = "Parbreak" -> TRUE
      [] a.kind = "Linebreak" /\ b.kind = "Linebreak" -> TRUE
      [] a.kind = "Text" /\ b.kind = "Text" -> a.text = b.text
      [] a.kind = "Raw" /\ b.kind = "Raw" -> a.lines = b.lines
      [] a.kind = "ToggleItalic" /\ b.kind = "ToggleItalic" -> TRUE
      [] a.kind = "ToggleBolder" /\ b.kind = "ToggleBolder" -> TRUE
      [] a.kind = "Model" /\ b.kind = "Model" -> ModelEq(a.box, b.box, h)
      [] OTHER -> FALSE

\* ---------------------------------------------------------------- clone
RECURSIVE CloneNodes(_, _)
RECURSIVE bound_clone(_, _)

\* impl Clone for Box<dyn Model>
BoxClone(self, h) == bound_clone(self, h)

\* #[derive(Clone)] enum Node
NodeClone_shallow(n, h) == [heap |-> h, node |-> n]
NodeClone(n, h) ==
    IF n.kind = "Model"
    THEN LET r == BoxClone(n.box, h) IN [heap |-> r.heap, node |-> ModelNode(r.box)]
    ELSE [heap |-> h, node |-> n]

\* Clone of Vec<Spanned<Node>>: element by element, in order.
CloneNodes(nodes, h) ==
    IF nodes = <<>> THEN [heap |-> h, nodes |-> <<>>]
    ELSE LET head == NodeClone(Head(nodes).v, h)
             rest == CloneNodes(Tail(nodes), head.heap)
         IN  [heap |-> rest.heap,
              nodes |-> <<Spanned(head.node, Head(nodes).span)>> \o rest.nodes]

\* #[derive(Clone)] struct SyntaxModel
SyntaxModelClone(m, h) ==
    LET r == CloneNodes(m.nodes, h) IN [heap |-> r.heap, model |-> [nodes |-> r.nodes]]

\* Self::clone of the concrete type of the value x.
ConcreteClone(x, h) ==
    IF x.type = "SyntaxModel"
    THEN LET r == CloneNodes(x.nodes, h) IN [heap |-> r.heap, val |-> Boxed(r)]
    ELSE [heap |-> h, val |-> x]

\* ModelBounds::bound_clone: Box::new(self.clone())
bound_clone_alias(self, h) == [heap |-> h, box |-> self]
bound_clone(self, h) ==
    LET c == ConcreteClone(h[self], h)
        b == Alloc(c.heap)
    IN  [heap |-> [c.heap EXCEPT ![b] = c.val], box |-> b]

\* ------------------------------------------- the value a reference denotes
RECURSIVE DeepNodes(_, _)
RECURSIVE DeepBox(_, _)
DeepNode(n, h) == IF n.kind = "Model" THEN [kind |-> "Model", val |-> DeepBox(n.box, h)] ELSE n
DeepNodes(nodes, h) == [i \in DOMAIN nodes |-> Spanned(DeepNode(nodes[i].v, h), nodes[i].span)]
DeepBox(a, h) ==
    IF h[a].type = "SyntaxModel"
    THEN [type |-> "SyntaxModel", nodes |-> DeepNodes(h[a].nodes, h)]
    ELSE h[a]
DeepModel(s) == DeepNodes(models[s].nodes, heap)

\* The slots whose model owns the box a.
Owners(a) == {s \in Slots : a \in ReachNodes(models[s].nodes, heap)}

\* ---------------------------------------------------------------- layout
\* Feedback::new(): no diagnostics, no decorations.
Feedback_new == [diagnostics |-> <<>>, decorations |-> <<>>]

\* Pass::new(output, feedback)
Pass_new(output, feedback) == [output |-> output, feedback |-> feedback]

\* Command::LayoutSyntaxModel(&SyntaxModel): a reference to the model.
LayoutSyntaxModel(self) == [cmd |-> "LayoutSyntaxModel", model |-> self]

\* A live future or result borrows the model it was called on.
Borrowed(s) == \E t \in Tasks : tasks[t].state # "idle" /\ tasks[t].target = s
Pending(t) == tasks[t].state = "created"

\* <SyntaxModel as Model>::layout, polled: the body has no await, so the
\* first poll runs it to the end.
layout_none(self, ctx) == [poll |-> "Ready", pass |-> Pass_new(<<>>, Feedback_new)]
layout(self, ctx) ==
    [poll |-> "Ready", pass |-> Pass_new(<<LayoutSyntaxModel(self)>>, Feedback_new)]

\* The receiver of layout is `&'a self`: the call leaves the model as it was.
layout_self_clear(self) == SyntaxModel_new
layout_self(self) == models[self]

\* ------------------------------------------------------------------ Init
Idle == [state |-> "idle"]

Init ==
    /\ models = [s \in Slots |-> SyntaxModel_new]
    /\ heap = [a \in Addrs |-> Free]
    /\ tasks = [t \in Tasks |-> Idle]
    /\ cloned = None
    /\ obs = [op |-> "init", touched |-> {}]

\* --------------------------------------------------------------- actions
\* *s = SyntaxModel::new(); the old value is dropped.
New(s) ==
    /\ ~Borrowed(s)
    /\ models' = [models EXCEPT ![s] = SyntaxModel_new]
    /\ heap' = Drop(models[s].nodes, heap)
    /\ cloned' = None
    /\ obs' = [op |-> "new", slot |-> s, touched |-> {s}]
    /\ UNCHANGED tasks

\* s.add(node), with the heap h holding what the node owns.
Push(s, node, h) ==
    /\ ~Borrowed(s)
    /\ Len(models[s].nodes) < MaxLen
    /\ models' = [models EXCEPT ![s] = add(@, node)]
    /\ heap' = h
    /\ obs' = [op |-> "add", slot |-> s, arg |-> node, before |-> models[s].nodes,
               touched |-> {s}]
    /\ UNCHANGED <<tasks, cloned>>

\* s.add(Spanned(n, sp)) for a node without a submodel.
AddPlain(s, n, sp) == Push(s, Spanned(n, sp), heap)

\* s.add(Spanned(Node::Model(Box::new(T { p })), sp))
AddExt(s, T, p, sp) ==
    /\ FreeAddrs(heap) # {}
    /\ LET b == Alloc(heap)
       IN  Push(s, Spanned(ModelNode(b), sp), [heap EXCEPT ![b] = Ext(T, p)])

\* s.add(Spanned(Node::Model(Box::new(mem::take(src))), sp)): the model of
\* src moves into a box owned by s, and src is left empty (Default).
AddSub(s, src, sp) ==
    /\ s # src
    /\ ~Borrowed(s) /\ ~Borrowed(src)
    /\ Len(models[s].nodes) < MaxLen
    /\ FreeAddrs(heap) # {}
    /\ LET b == Alloc(heap)
           node == Spanned(ModelNode(b), sp)
       IN  /\ models' = [models EXCEPT ![s] = add(@, node), ![src] = SyntaxModel_new]
           /\ heap' = [heap EXCEPT ![b] = Boxed(models[src])]
           /\ obs' = [op |-> "add", slot |-> s, arg |-> node, before |-> models[s].nodes,
                      touched |-> {s, src}]
    /\ cloned' = None
    /\ UNCHANGED tasks

\* The concrete payload of an extension value is changed in place (a type
\* with interior mutability, reached through downcast).
Mutate(a, p) ==
    /\ heap[a].type \in ExtTypes
    /\ heap[a].val # p
    /\ Owners(a) # {}
    /\ \A s \in Owners(a) : ~Borrowed(s)
    /\ heap' = [heap EXCEPT ![a].val = p]
    /\ obs' = [op |-> "mutate", box |-> a, touched |-> Owners(a)]
    /\ UNCHANGED <<models, tasks, cloned>>

\* dst = src.clone(): the clone is made, then the old value of dst dropped.
Clone(dst, src) ==
    /\ dst # src
    /\ ~Borrowed(dst)
    /\ Cardinality(FreeAddrs(heap)) >= Cardinality(ReachNodes(models[src].nodes, heap))
    /\ LET r == SyntaxModelClone(models[src], heap)
       IN  /\ models' = [models EXCEPT ![dst] = r.model]
           /\ heap' = Drop(models[dst].nodes, r.heap)
    /\ cloned' = [kind |-> "model", orig |-> src, copy |-> dst]
    /\ obs' = [op |-> "clone", orig |-> src, copy |-> dst, touched |-> {dst}]
    /\ UNCHANGED tasks

\* dst.add(Spanned(src.nodes[i].v.clone(), span)) for an extension node:
\* the erased value is cloned through Box<dyn Model>::clone.
CloneNode(dst, src, i) ==
    /\ i \in DOMAIN models[src].nodes
    /\ models[src].nodes[i].v.kind = "Model"
    /\ ~Borrowed(dst)
    /\ Len(models[dst].nodes) < MaxLen
    /\ LET x == models[src].nodes[i].v.box
       IN  /\ Cardinality(FreeAddrs(heap)) >= Cardinality(ReachBox(x, heap))
           /\ LET r == BoxClone(x, heap)
              IN  /\ models' = [models EXCEPT
                                  ![dst] = add(@, Spanned(ModelNode(r.box), models[src].nodes[i].span))]
                  /\ heap' = r.heap
                  /\ cloned' = [kind |-> "box", orig |-> x, copy |-> r.box]
                  /\ obs' = [op |-> "clone_box", orig |-> x, copy |-> r.box, touched |-> {dst}]
    /\ UNCHANGED tasks

\* x == y and y == x on two erased values (dyn Model).
CompareModels(x, y) ==
    /\ x \in LiveAddrs(heap) /\ y \in LiveAddrs(heap)
    /\ obs' = [op |-> "model_eq", a |-> x, b |-> y,
               result |-> ModelEq(x, y, heap), flipped |-> ModelEq(y, x, heap),
               touched |-> {}]
    /\ UNCHANGED <<models, heap, tasks, cloned>>

\* s.nodes[i].v == t.nodes[j].v and the reverse.
CompareNodes(s, i, t, j) ==
    /\ i \in DOMAIN models[s].nodes /\ j \in DOMAIN models[t].nodes
    /\ LET a == models[s].nodes[i].v
           b == models[t].nodes[j].v
       IN  obs' = [op |-> "node_eq", a |-> a, b |-> b,
                   result |-> NodeEq(a, b, heap), flipped |-> NodeEq(b, a, heap),
                   touched |-> {}]
    /\ UNCHANGED <<models, heap, tasks, cloned>>

\* x.downcast::<T>()
Downcast(x, T) ==
    /\ x \in LiveAddrs(heap)
    /\ obs' = [op |-> "downcast", box |-> x, to |-> T, result |-> downcast(x, T, heap),
               before |-> DeepBox(x, heap), touched |-> {}]
    /\ UNCHANGED <<models, heap, tasks, cloned>>

\* The driver calls s.layout(ctx): the future is created, nothing runs yet.
LayoutCall(t, s, c) ==
    /\ tasks[t].state = "idle"
    /\ tasks' = [tasks EXCEPT ![t] = [state |-> "created", target |-> s, ctx |-> c,
                                      before |-> DeepModel(s)]]
    /\ obs' = [op |-> "layout_call", task |-> t, touched |-> {}]
    /\ UNCHANGED <<models, heap, cloned>>

\* The driver polls the future of task t.
Poll(t) ==
    /\ Pending(t)
    /\ LET s == tasks[t].target
           r == layout(s, tasks[t].ctx)
       IN  /\ models' = [models EXCEPT ![s] = layout_self(s)]
           /\ IF r.poll = "Ready"
              THEN tasks' = [tasks EXCEPT ![t] =
                               [state |-> "done", target |-> s, ctx |-> tasks[t].ctx,
                                before |-> tasks[t].before, result |-> r.pass]]
              ELSE UNCHANGED tasks
    /\ obs' = [op |-> "poll", task |-> t, touched |-> {}]
    /\ UNCHANGED <<heap, cloned>>

\* The driver drops the future of task t before it completed.
Abandon(t) ==
    /\ Pending(t)
    /\ tasks' = [tasks EXCEPT ![t] = Idle]
    /\ obs' = [op |-> "abandon", target |-> tasks[t].target, before |-> tasks[t].before,
               touched |-> {}]
    /\ UNCHANGED <<models, heap, cloned>>

\* The driver has consumed the commands of task t and drops them.
Release(t) ==
    /\ tasks[t].state = "done"
    /\ tasks' = [tasks EXCEPT ![t] = Idle]
    /\ obs' = [op |-> "release", task |-> t, touched |-> {}]
    /\ UNCHANGED <<models, heap, cloned>>

\* -------------------------------------------------------- specifications
TreeSpan == MkSpan(1)

\* Clone and ownership: the model of slot a is built node by node, cloned
\* into b, nested (b moved into a box of a), changed and dropped.
Next ==
    \/ \E s \in Slots : New(s)
    \/ \E s \in Slots : AddPlain(s, Space, TreeSpan)
    \/ AddExt("a", "FuncA", 0, TreeSpan)
    \/ AddSub("a", "b", TreeSpan)
    \/ \E a \in Addrs, p \in {0, 1} : Mutate(a, p)
    \/ Clone("b", "a")
    \/ \E i \in 1..MaxLen : CloneNode("b", "a", i)

Spec == Init /\ [][Next]_vars

\* Clone of whole models: the model of slot a is built from plain nodes,
\* extension values and a submodel (the model of b moved into a box of a),
\* cloned into b, and either model is then added to or changed; a second
\* clone into b drops the first. The heap has room for a model of three
\* boxes and its clone.
InitClone ==
    /\ models = [s \in Slots |-> SyntaxModel_new]
    /\ heap = [a \in CloneAddrs |-> Free]
    /\ tasks = [t \in Tasks |-> Idle]
    /\ cloned = None
    /\ obs = [op |-> "init", touched |-> {}]

NextClone ==
    \/ AddPlain("a", Space, TreeSpan)
    \/ \E s \in Slots : AddExt(s, "FuncA", 0, TreeSpan)
    \/ AddSub("a", "b", TreeSpan)
    \/ \E a \in CloneAddrs, p \in {0, 1} : Mutate(a, p)
    \/ Clone("b", "a")

SpecClone == InitClone /\ [][NextClone]_vars

\* Erased values of every concrete type, their comparison and downcast.
NextErase ==
    \/ AddPlain("b", Space, TreeSpan)
    \/ \E T \in ExtTypes, p \in Payloads : AddExt("a", T, p, TreeSpan)
    \/ AddExt("b", "FuncA", 0, TreeSpan)
    \/ AddSub("a", "b", TreeSpan)
    \/ \E x \in Addrs, y \in Addrs : CompareModels(x, y)
    \/ \E x \in Addrs, T \in ModelTypes : Downcast(x, T)

SpecErase == Init /\ [][NextErase]_vars

\* Nodes of every variant in one model, and their comparison.
NextNode ==
    \/ New("a")
    \/ \E n \in PlainNodes, sp \in Spans : AddPlain("a", n, sp)
    \/ \E T \in ExtTypes, p \in Payloads, sp \in Spans : AddExt("a", T, p, sp)
    \/ \E i \in 1..MaxLen, j \in 1..MaxLen : CompareNodes("a", i, "a", j)

SpecNode == Init /\ [][NextNode]_vars

\* The layout driver over two sibling models.
NextLayout ==
    \/ \E s \in Slots : New(s)
    \/ \E s \in Slots : AddPlain(s, Space, TreeSpan)
    \/ \E t \in Tasks, s \in Slots, c \in Contexts : LayoutCall(t, s, c)
    \/ \E t \in Tasks : Poll(t)
    \/ \E t \in Tasks : Abandon(t)
    \/ \E t \in Tasks : Release(t)

SpecLayout == Init /\ [][NextLayout]_vars

\* ------------------------------------------------------------ properties
\* C1: two erased Model values of different concrete types never compare
\* equal, in either order and whatever their payloads, and the comparison
\* returns a boolean.
C1_CrossTypeUnequal ==
    obs.op = "model_eq" =>
        /\ obs.result \in BOOLEAN
        /\ obs.flipped \in BOOLEAN
        /\ heap[obs.a].type # heap[obs.b].type => obs.result = FALSE /\ obs.flipped = FALSE

\* An extension value of type FuncA was compared with one of type FuncB
\* that has the same payload.
C1_Witness ==
    /\ obs.op = "model_eq"
    /\ heap[obs.a].type = "FuncA"
    /\ heap[obs.b].type = "FuncB"
    /\ heap[obs.a].val = heap[obs.b].val

\* C2: m1 == m2 on erased Model values is true exactly when both hold the
\* same concrete type and the values they hold are structurally equal; so
\* identical values in separate nodes are equal and a different value of the
\* same type is unequal to both.
C2_EqualIffSameTypeAndValue ==
    obs.op = "model_eq" =>
        LET same == /\ heap[obs.a].type = heap[obs.b].type
                    /\ DeepBox(obs.a, heap) = DeepBox(obs.b, heap)
        IN  obs.result = same /\ obs.flipped = same

\* Two separate boxes holding identical extension values compared equal,
\* while a third box holds a different value of the same type.
C2_Witness ==
    /\ obs.op = "model_eq"
    /\ obs.a # obs.b
    /\ heap[obs.a].type \in ExtTypes
    /\ obs.result = TRUE
    /\ \E z \in LiveAddrs(heap) \ {obs.a, obs.b} :
          /\ heap[z].type = heap[obs.a].type
          /\ heap[z].val # heap[obs.a].val
          /\ ~ModelEq(z, obs.a, heap)
          /\ ~ModelEq(z, obs.b, heap)

\* C3: the clone of an erased Model value is equal to the original, has the
\* same concrete type and owns new storage; afterwards a change to the clone
\* or to its owner leaves the original as it was, and a change to the
\* original or to its owner leaves the clone as it was.
C3_CloneFresh ==
    obs.op = "clone_box" =>
        /\ ModelEq(obs.copy, obs.orig, heap)
        /\ ModelEq(obs.orig, obs.copy, heap)
        /\ heap[obs.copy].type = heap[obs.orig].type
        /\ ReachBox(obs.copy, heap) \cap ReachBox(obs.orig, heap) = {}

C3_Independent ==
    (cloned # None /\ cloned.kind = "box") =>
        LET o == cloned.orig
            c == cloned.copy
            sameO == DeepBox(o, heap') = DeepBox(o, heap)
            sameC == DeepBox(c, heap') = DeepBox(c, heap)
        IN  /\ (obs'.op = "mutate" /\ obs'.box \in ReachBox(c, heap)) => sameO
            /\ (obs'.op = "mutate" /\ obs'.box \in ReachBox(o, heap)) => sameC
            /\ (obs'.touched # {} /\ obs'.touched \cap Owners(o) = {}) => sameO
            /\ (obs'.touched # {} /\ obs'.touched \cap Owners(c) = {}) => sameC

C3_CloneEqualAndIndependent == []C3_CloneFresh /\ [][C3_Independent]_vars

\* The payload of the clone of an erased value was changed after the clone,
\* and the two now differ.
C3_Witness ==
    /\ cloned # None
    /\ cloned.kind = "box"
    /\ obs.op = "mutate"
    /\ obs.box = cloned.copy
    /\ heap[cloned.copy].type = heap[cloned.orig].type
    /\ heap[cloned.copy].val # heap[cloned.orig].val

\* C4: downcast of an erased value of type X to X yields the value it holds,
\* downcast to any other type yields None, and the erased value is the same
\* after the call.
C4_DowncastRoundTrip ==
    obs.op = "downcast" =>
        /\ heap[obs.box].type = obs.to =>
              /\ obs.result.tag = "Some"
              /\ heap[obs.result.v].type = obs.to
              /\ DeepBox(obs.result.v, heap) = obs.before
        /\ heap[obs.box].type # obs.to => obs.result = None
        /\ DeepBox(obs.box, heap) = obs.before

\* An extension value was downcast to the other extension type.
C4_Witness ==
    /\ obs.op = "downcast"
    /\ heap[obs.box].type \in ExtTypes
    /\ obs.to \in ExtTypes \ {heap[obs.box].type}
    /\ obs.result = None

\* C5: a new SyntaxModel has no nodes, and each add appends its argument:
\* the length grows by one, the argument is last, and the earlier nodes
\* keep their values and positions.
C5_AppendOnly ==
    /\ obs.op = "init" => \A s \in Slots : Len(models[s].nodes) = 0
    /\ obs.op = "new" => Len(models[obs.slot].nodes) = 0
    /\ obs.op = "add" =>
          LET now == models[obs.slot].nodes
              n == Len(obs.before)
          IN  /\ Len(now) = n + 1
              /\ now[n + 1] = obs.arg
              /\ \A i \in 1..n : now[i] = obs.before[i]

\* A second node, with another span than the first, was added.
C5_Witness ==
    /\ obs.op = "add"
    /\ Len(models[obs.slot].nodes) = 2
    /\ models[obs.slot].nodes[1].span # models[obs.slot].nodes[2].span
    /\ models[obs.slot].nodes[1].v # models[obs.slot].nodes[2].v

\* C6: the layout of a SyntaxModel completes at its first poll and yields
\* exactly one command, LayoutSyntaxModel of the model it was called on, and
\* no diagnostics.
C6_LayoutOneCommand ==
    /\ obs.op = "poll" => tasks[obs.task].state = "done"
    /\ \A t \in Tasks :
          tasks[t].state = "done" =>
              /\ Len(tasks[t].result.output) = 1
              /\ tasks[t].result.output[1] =
                    [cmd |-> "LayoutSyntaxModel", model |-> tasks[t].target]
              /\ tasks[t].result.feedback.diagnostics = <<>>
              /\ tasks[t].result.feedback.decorations = <<>>

\* The layout of an empty model was polled, with context 2.
C6_Witness ==
    /\ obs.op = "poll"
    /\ tasks[obs.task].state = "done"
    /\ tasks[obs.task].ctx = 2
    /\ models[tasks[obs.task].target].nodes = <<>>

\* C7: Node equality: equal for the same non-extension variant with equal
\* payload, unequal for differing variants (an extension node against any
\* other included), and for two extension nodes the equality of their
\* erased Model values.
C7_NodeEquality ==
    obs.op = "node_eq" =>
        LET a == obs.a
            b == obs.b
        IN  /\ (a.kind = b.kind /\ a.kind # "Model" /\ a = b) =>
                  obs.result = TRUE /\ obs.flipped = TRUE
            /\ a.kind # b.kind => obs.result = FALSE /\ obs.flipped = FALSE
            /\ (a.kind = "Model" /\ b.kind = "Model") =>
                  /\ obs.result = ModelEq(a.box, b.box, heap)
                  /\ obs.flipped = ModelEq(b.box, a.box, heap)

\* Two extension nodes with separate boxes holding unequal values of the
\* same type were compared.
C7_Witness ==
    /\ obs.op = "node_eq"
    /\ obs.a.kind = "Model"
    /\ obs.b.kind = "Model"
    /\ obs.a.box # obs.b.box
    /\ heap[obs.a.box].type = heap[obs.b.box].type
    /\ obs.result = FALSE

\* C8: the clone of a SyntaxModel is equal to the original, node by node in
\* the same order, and owns every extension value independently; afterwards
\* an operation on one of the two models leaves the other as it was.
C8_CloneFresh ==
    obs.op = "clone" =>
        LET o == models[obs.orig].nodes
            c == models[obs.copy].nodes
        IN  /\ SyntaxModelEq(models[obs.copy], models[obs.orig], heap)
            /\ Len(c) = Len(o)
            /\ \A i \in DOMAIN o : NodeEq(c[i].v, o[i].v, heap) /\ c[i].span = o[i].span
            /\ \A i \in DOMAIN o : o[i].v.kind = "Model" => c[i].v.box # o[i].v.box
            /\ ReachNodes(c, heap) \cap ReachNodes(o, heap) = {}

C8_Independent ==
    (cloned # None /\ cloned.kind = "model") =>
        /\ obs'.touched = {cloned.copy} =>
              DeepNodes(models'[cloned.orig].nodes, heap') = DeepModel(cloned.orig)
        /\ obs'.touched = {cloned.orig} =>
              DeepNodes(models'[cloned.copy].nodes, heap') = DeepModel(cloned.copy)

C8_ModelCloneIndependent == []C8_CloneFresh /\ [][C8_Independent]_vars

\* A model of two extension nodes, one an extension value and the other a
\* nested SyntaxModel that holds an extension child, was cloned, and the
\* payload of the extension child inside the clone's nested model was then
\* changed: the clone differs from the original.
C8_Witness ==
    /\ cloned # None
    /\ cloned.kind = "model"
    /\ obs.op = "mutate"
    /\ obs.touched = {cloned.copy}
    /\ LET o == models[cloned.orig].nodes
           c == models[cloned.copy].nodes
       IN  /\ Len(o) = 2
           /\ Len(c) = 2
           /\ \A i \in 1..2 : o[i].v.kind = "Model" /\ c[i].v.kind = "Model"
           /\ \E i \in 1..2 : heap[o[i].v.box].type \in ExtTypes
           /\ \E i \in 1..2 :
                 /\ heap[o[i].v.box].type = "SyntaxModel"
                 /\ heap[c[i].v.box].type = "SyntaxModel"
                 /\ \E j \in DOMAIN heap[c[i].v.box].nodes :
                       /\ heap[o[i].v.box].nodes[j].v.kind = "Model"
                       /\ heap[c[i].v.box].nodes[j].v.kind = "Model"
                       /\ obs.box = heap[c[i].v.box].nodes[j].v.box
    /\ DeepModel(cloned.copy) # DeepModel(cloned.orig)

\* C9: from the call of layout to its completion, and when the driver
\* abandons it, the model has the nodes it had before the call.
C9_LayoutLeavesModel ==
    /\ \A t \in Tasks :
          tasks[t].state # "idle" => DeepModel(tasks[t].target) = tasks[t].before
    /\ obs.op = "abandon" => DeepModel(obs.target) = obs.before

\* The layout of a model with nodes has completed.
C9_Witness ==
    /\ obs.op = "poll"
    /\ tasks[obs.task].state = "done"
    /\ Len(models[tasks[obs.task].target].nodes) = 2
====
